---- MODULE Spec2Model ----
(***************************************************************************)
(* A model of ChaincodeMockStub (src/src/ChaincodeMockStub.ts): the mock   *)
(* ledger's transaction context, key/value state with per-key history,     *)
(* private collections, events, the peer registry and the mockInit /       *)
(* mockInvoke / invokeChaincode call chain.                                *)
(*                                                                         *)
(* JavaScript values are represented as follows.                           *)
(*   - a string used as a key is the sequence of the code points of its    *)
(*     characters, whose order is the byte-wise order of the UTF-8 form,   *)
(*     so that comparisons are computed and not assumed;                   *)
(*   - the fields state, history, event, invokables, privateCollections    *)
(*     are Map objects that the code only ever uses through obj[key], that *)
(*     is as plain objects with own properties. An object is the sequence  *)
(*     of its own properties [key, value] in creation order, which is the  *)
(*     order Object.keys reports for keys that are not array indices;      *)
(*   - keys are drawn from strings that are neither array indices nor      *)
(*     names of Map.prototype members;                                     *)
(*   - undefined and null are the strings "undefined" and "null";          *)
(*   - ret is the outcome of the last call; iterator is the query iterator *)
(*     the caller was last handed, in a sequence that is empty before that.*)
(***************************************************************************)
EXTENDS Integers, Sequences, FiniteSets, TLC

\* ------------------------------------------------------------------ bounds
\* most KeyModification records kept, all keys of all stubs together
MaxHist == 2
\* deepest chain of nested chaincode entry points
MaxDepth == 2

\* ------------------------------------------------------------ input domains
Stubs == {"cc1", "cc2"}
ka == <<97>>
kb == <<98>>
kab == <<97, 98>>
kempty == <<>>
Keys == {ka, kb}
RangeKeys == {kempty, ka, kab, kb}
Values == {"v1", "v2"}
UUIDs == {"t1", "t2"}
undefined == "undefined"
null == "null"
\* new Map(), a Map without entries, as the value of transientMap
EmptyMap == "new Map()"
\* a transient map the test passes
TransientArgs == {undefined, "tm1"}
\* <SignedProposal>{}, the placeholder of mockTransactionStart
EmptyProposal == "{}"
\* a signed proposal the test passes
Proposals == {"sp1"}
\* private collection names
Collections == {"C1", "C2"}
\* event names and payloads
EventNames == {"evt"}
\* argument lists of an invocation
ArgLists == {<<"fn", "x">>}
\* responses of the chaincode under test
Responses == {"status200", "status500"}

\* object types and attribute lists of composite keys: "d" and "dx" with
\* the attributes "a", "ab", "b"; the keys that are written, and the partial
\* keys that are scanned for
doc == <<100>>
dox == <<100, 120>>
CompositeInputs ==
    {<<doc, <<ka>>>>, <<doc, <<ka, kb>>>>, <<doc, <<kab>>>>, <<dox, <<ka>>>>}
PartialInputs == CompositeInputs \cup {<<doc, <<>>>>, <<doc, <<kb>>>>}
\* chaincode names and channels of the peer registry
PeerNames == {"cc2", "cc2/ch"}
Channels == {"", "ch"}

VARIABLES txID, txTimestamp, args, state, history, transientMap,
          privateCollections, event, invokables, signedProposal, stack, ret,
          iterator

vars == <<txID, txTimestamp, args, state, history, transientMap,
          privateCollections, event, invokables, signedProposal, stack, ret,
          iterator>>

\* ------------------------------------------------- objects with properties
\* the empty object / a Map that has no own properties
NoProps == <<>>

\* obj[key], undefined when there is no such own property
GetProp(obj, key) ==
    LET hit == SelectSeq(obj, LAMBDA p : p.key = key)
    IN IF hit = <<>> THEN undefined ELSE hit[1].value

\* obj has an own property key
HasProp(obj, key) == SelectSeq(obj, LAMBDA p : p.key = key) # <<>>

\* obj[key] = value : an existing property keeps its place, a new one is last
SetProp(obj, key, value) ==
    IF HasProp(obj, key)
    THEN [i \in 1..Len(obj) |->
            IF obj[i].key = key THEN [key |-> key, value |-> value] ELSE obj[i]]
    ELSE Append(obj, [key |-> key, value |-> value])

\* delete obj[key]
DeleteProp(obj, key) == SelectSeq(obj, LAMBDA p : p.key # key)

\* Object.keys(obj)
ObjectKeys(obj) == [i \in 1..Len(obj) |-> obj[i].key]

\* ------------------------------------------------------------ call chain
\* The test driver runs when stack is empty. A frame is a pending
\* mockInit / mockInvoke / mockInvokeWithSignedProposal of frame.stub that
\* awaits the chaincode entry point, which runs and calls the stub it was
\* handed. Calls are sequential (the driver awaits each call), so nothing
\* runs between the entry point settling and the method resuming.
Top == stack[Len(stack)]

Running(s) == stack # <<>> /\ Top.stub = s

\* s is called by the test driver or by the chaincode that was handed s
Caller(s) == stack = <<>> \/ Running(s)

Driver == stack = <<>>


\* ------------------------------------------------------------------ Init
\* the fields after the constructor: txID, txTimestamp, args and
\* signedProposal are declared without an initializer; iterator is the
\* iterator the caller holds, <<>> while it holds none
Init ==
    /\ txID = [s \in Stubs |-> undefined]
    /\ txTimestamp = [s \in Stubs |-> undefined]
    /\ args = [s \in Stubs |-> <<>>]
    /\ state = [s \in Stubs |-> NoProps]
    /\ history = [s \in Stubs |-> NoProps]
    /\ transientMap = [s \in Stubs |-> EmptyMap]
    /\ privateCollections = [s \in Stubs |-> NoProps]
    /\ event = [s \in Stubs |-> NoProps]
    /\ invokables = [s \in Stubs |-> NoProps]
    /\ signedProposal = [s \in Stubs |-> undefined]
    /\ stack = <<>>
    /\ ret = "constructed"
    /\ iterator = <<>>

\* ---------------------------------------------------- transaction context
\* the transaction fields of stub s as one record
Ctx(s) == [txID |-> txID[s], signedProposal |-> signedProposal[s],
           txTimestamp |-> txTimestamp[s], transientMap |-> transientMap[s],
           args |-> args[s]]

\* stub s takes the transaction fields c, every other stub keeps its own
Install(s, c) ==
    /\ txID' = [txID EXCEPT ![s] = c.txID]
    /\ signedProposal' = [signedProposal EXCEPT ![s] = c.signedProposal]
    /\ txTimestamp' = [txTimestamp EXCEPT ![s] = c.txTimestamp]
    /\ transientMap' = [transientMap EXCEPT ![s] = c.transientMap]
    /\ args' = [args EXCEPT ![s] = c.args]

\* getTxID()
getTxID(s) == txID[s]

\* getSignedProposal()
getSignedProposal(s) == signedProposal[s]

\* getTransient()
getTransient(s) == transientMap[s]

\* getArgs(): this.args, in a sequence that is empty while args is undefined
getArgs(s) == args[s]

\* getStringArgs()
getStringArgs(s) == args[s]

\* the object getFunctionAndParameters() returns when this.args is a
FunctionAndParameters(a) ==
    IF Len(a) >= 1 THEN [fcn |-> a[1], params |-> Tail(a)]
    ELSE [fcn |-> "", params |-> a]

\* getFunctionAndParameters(): params is the array this.args itself, and
\* params.splice(0, 1) cuts its first element out in place; params.length
\* throws a TypeError while this.args is undefined
getFunctionAndParameters(s) ==
    /\ Caller(s)
    /\ IF getStringArgs(s) = <<>>
       THEN /\ ret' = "threw: TypeError"
            /\ UNCHANGED args
       ELSE /\ args' = [args EXCEPT ![s] =
                  <<FunctionAndParameters(getStringArgs(s)[1]).params>>]
            /\ ret' = "returned"
    /\ UNCHANGED <<txID, txTimestamp, transientMap, privateCollections, event,
                   state, history, invokables, signedProposal, stack, iterator>>

\* setSignedProposal(sp)
setSignedProposal(c, sp) == [c EXCEPT !.signedProposal = sp]

\* setTxTimestamp(t)
setTxTimestamp(c, t) == [c EXCEPT !.txTimestamp = t]

\* mockTransactionStart(txid, transientMap); tm is undefined when the
\* optional argument is omitted
mockTransactionStart(c, txid, tm) ==
    [setTxTimestamp(setSignedProposal([c EXCEPT !.txID = txid], EmptyProposal),
                    "new Timestamp()")
        EXCEPT !.transientMap = tm]

\* a mockTransactionEnd that forgets to reset the transient map
mockTransactionEnd_keepsTransient(c, uuid) ==
    [c EXCEPT !.signedProposal = null, !.txID = ""]

\* mockTransactionEnd(uuid); uuid is not read
mockTransactionEnd(c, uuid) ==
    [c EXCEPT !.signedProposal = null, !.txID = "", !.transientMap = EmptyMap]

\* the test driver calls stub.mockTransactionStart(txid, tm)
CallMockTransactionStart(s, txid, tm) ==
    /\ Driver
    /\ Install(s, mockTransactionStart(Ctx(s), txid, tm))
    /\ ret' = "void"
    /\ UNCHANGED <<state, history, privateCollections, event, invokables, stack,
                   iterator>>

\* a mockTransactionEnd that also empties the event map
CallMockTransactionEnd_clearsEvents(s, uuid) ==
    /\ Driver
    /\ Install(s, mockTransactionEnd(Ctx(s), uuid))
    /\ event' = [event EXCEPT ![s] = NoProps]
    /\ ret' = "void"
    /\ UNCHANGED <<state, history, privateCollections, invokables, stack, iterator>>

\* the test driver calls stub.mockTransactionEnd(uuid)
CallMockTransactionEnd(s, uuid) ==
    /\ Driver
    /\ Install(s, mockTransactionEnd(Ctx(s), uuid))
    /\ ret' = "void"
    /\ UNCHANGED <<state, history, privateCollections, event, invokables, stack,
                   iterator>>

\* ------------------------------------------------------ state and history
\* getState(key): this.state[key]
getState(s, key) == GetProp(state[s], key)

\* the KeyModification records; the timestamp of a record is a fresh
\* MockProtoTimestamp that nothing reads and is left out
KeyModification(isDelete, value, txid) ==
    [is_delete |-> isDelete, value |-> value, tx_id |-> txid]

\* this.history[key], only read where the property exists
HistoryOf(s, key) == GetProp(history[s], key)

\* the number of values held by the properties of obj, each a sequence
RECURSIVE Held(_)
Held(obj) == IF obj = <<>> THEN 0 ELSE Len(obj[1].value) + Held(Tail(obj))

RECURSIVE HeldBy(_, _)
HeldBy(f, S) ==
    IF S = {} THEN 0
    ELSE LET s == CHOOSE x \in S : TRUE IN Held(f[s]) + HeldBy(f, S \ {s})

\* room left for one more record under the bound of the model
HistRoom == HeldBy(history, Stubs) < MaxHist

\* a putState that writes a key only once: a later put of the key adds its
\* record to the history and leaves the live value alone
putState_keepsFirst(s, key, value) ==
    /\ Caller(s)
    /\ IF txID[s] = ""
       THEN /\ ret' = "rejected: no transaction"
            /\ UNCHANGED <<state, history>>
       ELSE /\ HistRoom
            /\ state' = [state EXCEPT ![s] =
                  IF HasProp(@, key) THEN @ ELSE SetProp(@, key, value)]
            /\ LET h == IF HasProp(history[s], key) THEN HistoryOf(s, key) ELSE <<>>
               IN history' = [history EXCEPT ![s] =
                     SetProp(@, key, Append(h, KeyModification(FALSE, value, txID[s])))]
            /\ ret' = "resolved"
    /\ UNCHANGED <<txID, txTimestamp, args, transientMap, privateCollections,
                   event, invokables, signedProposal, stack, iterator>>

\* a putState that writes through to the pairs of the iterator the caller
\* holds, as if the iterator shared them with the store
putState_writesThrough(s, key, value) ==
    /\ Caller(s)
    /\ IF txID[s] = ""
       THEN /\ ret' = "rejected: no transaction"
            /\ UNCHANGED <<state, history, iterator>>
       ELSE /\ HistRoom
            /\ state' = [state EXCEPT ![s] = SetProp(@, key, value)]
            /\ LET h == IF HasProp(history[s], key) THEN HistoryOf(s, key) ELSE <<>>
               IN history' = [history EXCEPT ![s] =
                     SetProp(@, key, Append(h, KeyModification(FALSE, value, txID[s])))]
            /\ iterator' = [n \in 1..Len(iterator) |->
                  [iterator[n] EXCEPT !.data = [i \in 1..Len(@) |->
                      IF @[i].key = key THEN [key |-> key, value |-> value] ELSE @[i]]]]
            /\ ret' = "resolved"
    /\ UNCHANGED <<txID, txTimestamp, args, transientMap, privateCollections,
                   event, invokables, signedProposal, stack>>

\* putState(key, value)
putState(s, key, value) ==
    /\ Caller(s)
    /\ IF txID[s] = ""
       THEN /\ ret' = "rejected: no transaction"
            /\ UNCHANGED <<state, history>>
       ELSE /\ HistRoom
            /\ state' = [state EXCEPT ![s] = SetProp(@, key, value)]
            /\ LET h == IF HasProp(history[s], key) THEN HistoryOf(s, key) ELSE <<>>
               IN history' = [history EXCEPT ![s] =
                     SetProp(@, key, Append(h, KeyModification(FALSE, value, txID[s])))]
            /\ ret' = "resolved"
    /\ UNCHANGED <<txID, txTimestamp, args, transientMap, privateCollections,
                   event, invokables, signedProposal, stack, iterator>>

\* a deleteState that starts the history of the key afresh with its record
deleteState_dropsHistory(s, key) ==
    /\ Caller(s)
    /\ IF ~HasProp(history[s], key)
       THEN /\ ret' = "threw: TypeError"
            /\ UNCHANGED <<state, history>>
       ELSE /\ HistRoom
            /\ history' = [history EXCEPT ![s] =
                  SetProp(@, key, <<KeyModification(TRUE, getState(s, key), txID[s])>>)]
            /\ state' = [state EXCEPT ![s] = DeleteProp(@, key)]
            /\ ret' = "resolved"
    /\ UNCHANGED <<txID, txTimestamp, args, transientMap, privateCollections,
                   event, invokables, signedProposal, stack, iterator>>

\* deleteState(key): this.history[key].push throws a TypeError when the key
\* has no history, before anything is changed
deleteState(s, key) ==
    /\ Caller(s)
    /\ IF ~HasProp(history[s], key)
       THEN /\ ret' = "threw: TypeError"
            /\ UNCHANGED <<state, history>>
       ELSE /\ HistRoom
            /\ history' = [history EXCEPT ![s] =
                  SetProp(@, key, Append(HistoryOf(s, key),
                      KeyModification(TRUE, getState(s, key), txID[s])))]
            /\ state' = [state EXCEPT ![s] = DeleteProp(@, key)]
            /\ ret' = "resolved"
    /\ UNCHANGED <<txID, txTimestamp, args, transientMap, privateCollections,
                   event, invokables, signedProposal, stack, iterator>>

\* Helpers.strcmp(a, b): -1, 0 or 1 as a sorts before, with or after b in
\* the byte-wise lexicographic order of keys
RECURSIVE strcmp(_, _)
strcmp(a, b) ==
    IF a = <<>> /\ b = <<>> THEN 0
    ELSE IF a = <<>> THEN -1
    ELSE IF b = <<>> THEN 1
    ELSE IF Head(a) < Head(b) THEN -1
    ELSE IF Head(a) > Head(b) THEN 1
    ELSE strcmp(Tail(a), Tail(b))

\* a range filter whose end bound is exclusive
InRange_exclusiveEnd(k, startKey, endKey) ==
    LET comp1 == strcmp(k, startKey)
        comp2 == strcmp(k, endKey)
    IN (comp1 >= 0 /\ comp2 < 0) \/ (startKey = <<>> /\ endKey = <<>>)

\* the filter of getStateByRange and getPrivateDataByRange
InRange(k, startKey, endKey) ==
    LET comp1 == strcmp(k, startKey)
        comp2 == strcmp(k, endKey)
    IN (comp1 >= 0 /\ comp2 <= 0) \/ (startKey = <<>> /\ endKey = <<>>)

\* Object.keys(obj).filter(...).map(k => ({key: k, value: obj[k]}))
RangeItems(obj, startKey, endKey) ==
    LET ks == SelectSeq(ObjectKeys(obj), LAMBDA k : InRange(k, startKey, endKey))
    IN [i \in 1..Len(ks) |-> [key |-> ks[i], value |-> GetProp(obj, ks[i])]]

\* new MockStateQueryIterator(items): the iterator over the items it is
\* given, in the order it is given them
MockStateQueryIterator(items) == [data |-> items, currentLoc |-> 0]

\* the key/value pairs an iterator yields from next() until done
Yields(it) == SubSeq(it.data, it.currentLoc + 1, Len(it.data))

\* the range scan both stores share, over the object that holds the keys
RangeScan(obj, startKey, endKey) ==
    MockStateQueryIterator(RangeItems(obj, startKey, endKey))

\* getStateByRange(startKey, endKey)
getStateByRange(s, startKey, endKey) == RangeScan(state[s], startKey, endKey)

\* CompositeKeys.MIN_UNICODE_RUNE_VALUE, the delimiter U+0000
MIN_UNICODE_RUNE_VALUE == <<0>>

\* CompositeKeys.MAX_UNICODE_RUNE_VALUE, U+10FFFF
MAX_UNICODE_RUNE_VALUE == <<1114111>>

\* the attributes, each followed by the delimiter
RECURSIVE JoinAttributes(_)
JoinAttributes(attributes) ==
    IF attributes = <<>> THEN <<>>
    ELSE Head(attributes) \o MIN_UNICODE_RUNE_VALUE \o JoinAttributes(Tail(attributes))

\* CompositeKeys.createCompositeKey(objectType, attributes): the namespace
\* delimiter, the object type and every attribute, each closed by the delimiter
createCompositeKey(objectType, attributes) ==
    MIN_UNICODE_RUNE_VALUE \o objectType \o MIN_UNICODE_RUNE_VALUE
        \o JoinAttributes(attributes)

\* a getStateByPartialCompositeKey that scans for the partial key alone
getStateByPartialCompositeKey_exactKey(s, objectType, attributes) ==
    LET partialCompositeKey == createCompositeKey(objectType, attributes)
    IN getStateByRange(s, partialCompositeKey, partialCompositeKey)

\* getStateByPartialCompositeKey(objectType, attributes)
getStateByPartialCompositeKey(s, objectType, attributes) ==
    LET partialCompositeKey == createCompositeKey(objectType, attributes)
    IN getStateByRange(s, partialCompositeKey,
                       partialCompositeKey \o MAX_UNICODE_RUNE_VALUE)

\* the caller awaits stub.getStateByRange(startKey, endKey) and keeps the
\* iterator
CallGetStateByRange(s, startKey, endKey) ==
    /\ Caller(s)
    /\ iterator' = <<getStateByRange(s, startKey, endKey)>>
    /\ ret' = "resolved"
    /\ UNCHANGED <<txID, txTimestamp, args, transientMap, privateCollections, event,
                   state, history, invokables, signedProposal, stack>>

\* the caller awaits stub.getStateByPartialCompositeKey(objectType,
\* attributes) and keeps the iterator
CallGetStateByPartialCompositeKey(s, objectType, attributes) ==
    /\ Caller(s)
    /\ iterator' = <<getStateByPartialCompositeKey(s, objectType, attributes)>>
    /\ ret' = "resolved"
    /\ UNCHANGED <<txID, txTimestamp, args, transientMap, privateCollections, event,
                   state, history, invokables, signedProposal, stack>>

\* the caller takes the next pair from the iterator it holds
IteratorNext ==
    /\ iterator # <<>>
    /\ iterator[1].currentLoc < Len(iterator[1].data)
    /\ iterator' = <<[iterator[1] EXCEPT !.currentLoc = @ + 1]>>
    /\ ret' = "resolved"
    /\ UNCHANGED <<txID, txTimestamp, args, transientMap, privateCollections, event,
                   state, history, invokables, signedProposal, stack>>

\* new MockHistoryQueryIterator(data): the iterator over the records it is
\* given, which it does not look at before next() is called
MockHistoryQueryIterator(data) == [data |-> data, currentLoc |-> 0]

\* getHistoryForKey(key): the iterator over this.history[key], which is
\* undefined for a key without history
getHistoryForKey(s, key) == MockHistoryQueryIterator(GetProp(history[s], key))

\* the caller awaits stub.getHistoryForKey(key): Promise.resolve(...) of the
\* iterator, whatever the key
CallGetHistoryForKey(s, key) ==
    /\ Caller(s)
    /\ ret' = "resolved"
    /\ UNCHANGED <<txID, txTimestamp, args, transientMap, privateCollections, event,
                   state, history, invokables, signedProposal, stack, iterator>>

\* ----------------------------------------------------------------- events
\* setEvent(name, payload)
setEvent(s, name, payload) ==
    /\ Caller(s)
    /\ IF txID[s] = ""
       THEN /\ ret' = "rejected: no transaction"
            /\ UNCHANGED event
       ELSE /\ event' = [event EXCEPT ![s] = SetProp(@, name, payload)]
            /\ ret' = "resolved"
    /\ UNCHANGED <<txID, txTimestamp, args, transientMap, privateCollections,
                   state, history, invokables, signedProposal, stack,
                   iterator>>

\* getEvent(name)
getEvent(s, name) == GetProp(event[s], name)

\* ----------------------------------------------------------- private data
\* new Map(): an object without own properties and without Map entries
NewMap == [props |-> NoProps, entries |-> NoProps]

\* a lookup that falls back on the first collection there is when the one
\* named does not exist
CollectionOrEmpty_fallsBack(pcs, collection) ==
    IF HasProp(pcs, collection) THEN GetProp(pcs, collection)
    ELSE IF pcs # <<>> THEN pcs[1].value
    ELSE NewMap

\* this.privateCollections[collection] || {}, pcs being privateCollections
CollectionOrEmpty(pcs, collection) ==
    IF HasProp(pcs, collection) THEN GetProp(pcs, collection) ELSE NewMap

\* (this.privateCollections[collection] || {})[key]
PrivateGet(pcs, collection, key) == GetProp(CollectionOrEmpty(pcs, collection).props, key)

\* getPrivateData(collection, key)
getPrivateData(s, collection, key) == PrivateGet(privateCollections[s], collection, key)

\* putPrivateData(collection, key, value): the value becomes an own property
\* of the collection's Map object
putPrivateData(s, collection, key, value) ==
    /\ Caller(s)
    /\ IF txID[s] = ""
       THEN /\ ret' = "rejected: no transaction"
            /\ UNCHANGED privateCollections
       ELSE /\ LET m == CollectionOrEmpty(privateCollections[s], collection)
               IN privateCollections' = [privateCollections EXCEPT ![s] =
                     SetProp(@, collection, [m EXCEPT !.props = SetProp(@, key, value)])]
            /\ ret' = "resolved"
    /\ UNCHANGED <<txID, txTimestamp, args, transientMap, event,
                   state, history, invokables, signedProposal, stack,
                   iterator>>

\* Map.prototype.delete(key): removes the entry of the Map, not a property
MapDelete(m, key) == [m EXCEPT !.entries = DeleteProp(@, key)]

\* deletePrivateData(collection, key)
deletePrivateData(s, collection, key) ==
    /\ Caller(s)
    /\ IF getPrivateData(s, collection, key) # undefined
       THEN privateCollections' = [privateCollections EXCEPT ![s] =
               SetProp(@, collection,
                       MapDelete(CollectionOrEmpty(privateCollections[s], collection), key))]
       ELSE UNCHANGED privateCollections
    /\ ret' = "resolved"
    /\ UNCHANGED <<txID, txTimestamp, args, transientMap, event,
                   state, history, invokables, signedProposal, stack,
                   iterator>>

\* the range scan of one collection of pcs, the stub's privateCollections
PrivateRange(pcs, collection, startKey, endKey) ==
    RangeScan(CollectionOrEmpty(pcs, collection).props, startKey, endKey)

\* getPrivateDataByRange(collection, startKey, endKey)
getPrivateDataByRange(s, collection, startKey, endKey) ==
    PrivateRange(privateCollections[s], collection, startKey, endKey)

\* ------------------------------------------------------- chaincode calls
\* a pending mockInit / mockInvoke / mockInvokeWithSignedProposal of stub s:
\* its parameter uuid and the stub whose chaincode it awaits
Frame(s, uuid) == [stub |-> s, uuid |-> uuid]

\* a begin whose signed-proposal placeholder lands on every stub
Begin_sharedProposal(s, uuid, a, tm) ==
    /\ Len(stack) < MaxDepth
    /\ LET c == mockTransactionStart([Ctx(s) EXCEPT !.args = <<a>>], uuid, tm)
       IN /\ txID' = [txID EXCEPT ![s] = c.txID]
          /\ signedProposal' = [x \in Stubs |-> c.signedProposal]
          /\ txTimestamp' = [txTimestamp EXCEPT ![s] = c.txTimestamp]
          /\ transientMap' = [transientMap EXCEPT ![s] = c.transientMap]
          /\ args' = [args EXCEPT ![s] = c.args]
    /\ stack' = Append(stack, Frame(s, uuid))

\* the first half of mockInit / mockInvoke, up to the await
Begin(s, uuid, a, tm) ==
    /\ Len(stack) < MaxDepth
    /\ Install(s, mockTransactionStart([Ctx(s) EXCEPT !.args = <<a>>], uuid, tm))
    /\ stack' = Append(stack, Frame(s, uuid))

\* mockInit(uuid, args, transientMap) up to the await of cc.Init
mockInit(s, uuid, a, tm) ==
    /\ Driver
    /\ Begin(s, uuid, a, tm)
    /\ UNCHANGED <<state, history, privateCollections, event, invokables, ret,
                   iterator>>

\* mockInvoke(uuid, args, transientMap) up to the await of cc.Invoke
mockInvoke(s, uuid, a, tm) ==
    /\ Driver
    /\ Begin(s, uuid, a, tm)
    /\ UNCHANGED <<state, history, privateCollections, event, invokables, ret,
                   iterator>>

\* mockInvokeWithSignedProposal(uuid, args, sp) up to the await of cc.Invoke
mockInvokeWithSignedProposal(s, uuid, a, sp) ==
    /\ Driver
    /\ Len(stack) < MaxDepth
    /\ Install(s, setSignedProposal(
          mockTransactionStart([Ctx(s) EXCEPT !.args = <<a>>], uuid, undefined), sp))
    /\ stack' = Append(stack, Frame(s, uuid))
    /\ UNCHANGED <<state, history, privateCollections, event, invokables, ret,
                   iterator>>

\* a return whose pending method skips mockTransactionEnd
ChaincodeReturns_skipsEnd(r) ==
    /\ stack # <<>>
    /\ stack' = SubSeq(stack, 1, Len(stack) - 1)
    /\ ret' = r
    /\ UNCHANGED <<txID, txTimestamp, args, transientMap, signedProposal,
                   privateCollections, event, state, history, invokables,
                   iterator>>

\* the entry point of the running chaincode returns response r and the
\* pending mockInit / mockInvoke / mockInvokeWithSignedProposal resumes:
\* const res = await ...; mockTransactionEnd(uuid); return res
ChaincodeReturns(r) ==
    /\ stack # <<>>
    /\ Install(Top.stub, mockTransactionEnd(Ctx(Top.stub), Top.uuid))
    /\ stack' = SubSeq(stack, 1, Len(stack) - 1)
    /\ ret' = r
    /\ UNCHANGED <<privateCollections, event, state, history, invokables, iterator>>

\* the entry point of the running chaincode throws: the await throws and the
\* pending method rejects without reaching mockTransactionEnd
ChaincodeThrows ==
    /\ stack # <<>>
    /\ stack' = SubSeq(stack, 1, Len(stack) - 1)
    /\ ret' = "rejected: chaincode error"
    /\ UNCHANGED <<txID, txTimestamp, args, transientMap, privateCollections, event,
                   state, history, invokables, signedProposal, iterator>>

\* ---------------------------------------------------------- peer registry
\* mockPeerChaincode(invokableChaincodeName, otherStub)
mockPeerChaincode(s, name, otherStub) ==
    /\ Driver
    /\ invokables' = [invokables EXCEPT ![s] = SetProp(@, name, otherStub)]
    /\ ret' = "void"
    /\ UNCHANGED <<txID, txTimestamp, args, transientMap, privateCollections, event,
                   state, history, signedProposal, stack, iterator>>

\* a registry key that leaves the channel out
QualifiedName_ignoresChannel(chaincodeName, channel) == chaincodeName

\* the registry key invokeChaincode looks up
QualifiedName(chaincodeName, channel) ==
    IF channel # "" THEN chaincodeName \o "/" \o channel ELSE chaincodeName

\* an invokeChaincode that does not hand its transaction id to the peer
invokeChaincode_dropsTxID(s, chaincodeName, a, channel) ==
    /\ Caller(s)
    /\ LET otherStub == GetProp(invokables[s], QualifiedName(chaincodeName, channel))
       IN IF otherStub = undefined
          THEN /\ ret' = "rejected: chaincode not found"
               /\ UNCHANGED <<txID, txTimestamp, args, transientMap, signedProposal, stack>>
          ELSE /\ Begin(otherStub, undefined, a, undefined)
               /\ UNCHANGED ret
    /\ UNCHANGED <<state, history, privateCollections, event, invokables, iterator>>

\* invokeChaincode(chaincodeName, args, channel), up to the await inside the
\* peer's mockInvoke(this.txID, args)
invokeChaincode(s, chaincodeName, a, channel) ==
    /\ Caller(s)
    /\ LET otherStub == GetProp(invokables[s], QualifiedName(chaincodeName, channel))
       IN IF otherStub = undefined
          THEN /\ ret' = "rejected: chaincode not found"
               /\ UNCHANGED <<txID, txTimestamp, args, transientMap, signedProposal, stack>>
          ELSE /\ Begin(otherStub, txID[s], a, undefined)
               /\ UNCHANGED ret
    /\ UNCHANGED <<state, history, privateCollections, event, invokables, iterator>>

\* --------------------------------------------------------- specifications
\* The test driver works on the ledger under test, cc1; cc2 is a peer that
\* acts when its chaincode is invoked.
Driven == "cc1"

\* the stub the next call goes to: the driver's, or the one handed to the
\* chaincode that is running
Callee == IF stack = <<>> THEN {Driven} ELSE {Top.stub}

\* The ledger under test driven call by call: transactions, state, private
\* data, events and the registry.
NextStore ==
    \/ \E t \in UUIDs, tm \in TransientArgs : CallMockTransactionStart(Driven, t, tm)
    \/ \E t \in UUIDs : CallMockTransactionEnd(Driven, t)
    \/ \E k \in Keys, v \in Values : putState(Driven, k, v)
    \/ \E k \in Keys : deleteState(Driven, k)
    \/ \E n \in EventNames, v \in Values : setEvent(Driven, n, v)
    \/ \E c \in {"C1"}, k \in {ka}, v \in {"v1"} : putPrivateData(Driven, c, k, v)
    \/ \E c \in {"C1"}, k \in {ka} : deletePrivateData(Driven, c, k)
    \/ \E k \in Keys : CallGetHistoryForKey(Driven, k)
    \/ \E n \in {"cc2"}, o \in {"cc2"} : mockPeerChaincode(Driven, n, o)

SpecStore == Init /\ [][NextStore]_vars

\* Private collections next to the main state of the ledger under test.
NextPrivate ==
    \/ \E t \in {"t1"} : CallMockTransactionStart(Driven, t, undefined)
    \/ \E t \in {"t1"} : CallMockTransactionEnd(Driven, t)
    \/ \E k \in Keys, v \in {"v1"} : putState(Driven, k, v)
    \/ \E k \in {ka} : deleteState(Driven, k)
    \/ \E c \in Collections, k \in Keys, v \in Values : putPrivateData(Driven, c, k, v)
    \/ \E c \in Collections, k \in Keys : deletePrivateData(Driven, c, k)

SpecPrivate == Init /\ [][NextPrivate]_vars

\* Chaincode entry points: the driver begins them on cc1, the running
\* chaincode calls the stub it was handed and may invoke a registered peer.
NextInvoke ==
    \/ \E t \in UUIDs, tm \in TransientArgs : CallMockTransactionStart(Driven, t, tm)
    \/ \E t \in UUIDs : CallMockTransactionEnd(Driven, t)
    \/ \E s \in Callee, k \in Keys, v \in {"v1"} : putState(s, k, v)
    \/ \E s \in Callee, k \in Keys : deleteState(s, k)
    \/ \E t \in UUIDs, a \in ArgLists, tm \in TransientArgs : mockInit(Driven, t, a, tm)
    \/ \E t \in UUIDs, a \in ArgLists, tm \in TransientArgs : mockInvoke(Driven, t, a, tm)
    \/ \E t \in UUIDs, a \in ArgLists, sp \in Proposals :
          mockInvokeWithSignedProposal(Driven, t, a, sp)
    \/ \E r \in Responses : ChaincodeReturns(r)
    \/ ChaincodeThrows
    \/ \E n \in {"cc2"}, o \in Stubs : mockPeerChaincode(Driven, n, o)
    \/ \E s \in Callee, n \in {"cc2"}, a \in ArgLists : invokeChaincode(s, n, a, "")

SpecInvoke == Init /\ [][NextInvoke]_vars

\* The peer registry and the arguments of an invocation: peers registered
\* with and without a channel, invoked with and without one.
NextPeers ==
    \/ \E t \in {"t1"}, a \in ArgLists : mockInvoke(Driven, t, a, undefined)
    \/ \E s \in Callee : getFunctionAndParameters(s)
    \/ \E s \in Callee, k \in {ka}, v \in {"v1"} : putState(s, k, v)
    \/ \E n \in PeerNames, o \in Stubs : mockPeerChaincode(Driven, n, o)
    \/ \E s \in Callee, n \in {"cc2"}, a \in ArgLists, ch \in Channels :
          invokeChaincode(s, n, a, ch)
    \/ \E r \in {"status200"} : ChaincodeReturns(r)

SpecPeers == Init /\ [][NextPeers]_vars

\* the keys of the scans: the composite keys and a plain key
ScanKeys == {createCompositeKey(in[1], in[2]) : in \in CompositeInputs} \cup {ka}

\* Range and partial-key scans over composite and plain keys, and the
\* iterators they hand out.
NextScan ==
    \/ \E t \in {"t1"} : CallMockTransactionStart(Driven, t, undefined)
    \/ \E k \in ScanKeys, v \in Values : putState(Driven, k, v)
    \/ \E k \in ScanKeys : deleteState(Driven, k)
    \/ CallGetStateByRange(Driven, kempty, kempty)
    \/ \E in \in {<<doc, <<ka>>>>} :
          CallGetStateByPartialCompositeKey(Driven, in[1], in[2])
    \/ IteratorNext

SpecScan == Init /\ [][NextScan]_vars

\* ------------------------------------------------------------ vocabulary
\* no transaction is active on s: none was ever started, or the last ended
NoActiveTransaction(s) == txID[s] = undefined \/ txID[s] = ""

\* a sorts strictly before b, byte by byte
Precedes(a, b) ==
    \E i \in 1..(Len(b)) :
        /\ \A j \in 1..(i - 1) : j <= Len(a) /\ a[j] = b[j]
        /\ (i > Len(a) \/ (i <= Len(a) /\ a[i] < b[i]))

PrecedesOrEquals(a, b) == a = b \/ Precedes(a, b)

\* the keys of a sequence of key/value pairs
KeysOf(items) == [i \in 1..Len(items) |-> items[i].key]

\* strictly ascending, hence also free of repetitions
Ascending(ks) == \A i \in 1..(Len(ks) - 1) : Precedes(ks[i], ks[i + 1])

\* the last record of history h
LastRecord(h) == h[Len(h)]

\* ------------------------------------------------------------------ claims

\* C1 (as stated): whenever no transaction is active on the stub, whether none
\* was ever started or the last one has ended, putState, putPrivateData and
\* setEvent fail with the no-transaction error and leave state, history,
\* private collections and events unchanged.
C1_WritesNeedTransaction ==
    [][NoActiveTransaction(Driven) =>
        /\ \A k \in Keys, v \in Values :
              putState(Driven, k, v) =>
                 /\ ret' = "rejected: no transaction"
                 /\ UNCHANGED <<state, history, privateCollections, event>>
        /\ \A c \in Collections, k \in Keys, v \in Values :
              putPrivateData(Driven, c, k, v) =>
                 /\ ret' = "rejected: no transaction"
                 /\ UNCHANGED <<state, history, privateCollections, event>>
        /\ \A n \in EventNames, v \in Values :
              setEvent(Driven, n, v) =>
                 /\ ret' = "rejected: no transaction"
                 /\ UNCHANGED <<state, history, privateCollections, event>>]_vars

\* C2: after putState(k, v) resolves, getState(k) is v, and the value
\* getState(k) returns changes only by a later putState(k, _) that resolves or
\* by a deleteState(k) that resolves, also once the transaction has ended.
C2_GetReturnsLastPut ==
    [][\A k \in Keys :
        /\ \A v \in Values :
              (putState(Driven, k, v) /\ ret' = "resolved") =>
                 GetProp(state'[Driven], k) = v
        /\ GetProp(state'[Driven], k) # getState(Driven, k) =>
              /\ ret' = "resolved"
              /\ \/ \E v \in Values : putState(Driven, k, v)
                 \/ deleteState(Driven, k)]_vars

\* C2 witness: the transaction has ended and k1 still reads the second of
\* two values put
C2_Witness ==
    /\ txID[Driven] = ""
    /\ getState(Driven, ka) = "v2"
    /\ HasProp(history[Driven], ka)
    /\ Len(HistoryOf(Driven, ka)) = 2
    /\ HistoryOf(Driven, ka)[1].value = "v1"
    /\ ~HistoryOf(Driven, ka)[1].is_delete

\* C3 (as stated): for every key, written before or not, deleteState(k)
\* leaves getState(k) absent and the history of k ending with a delete record
\* that carries the value k had just before.
C3_DeleteLeavesTombstone ==
    [][\A k \in Keys :
        deleteState(Driven, k) =>
           /\ GetProp(state'[Driven], k) = undefined
           /\ HasProp(history'[Driven], k)
           /\ LastRecord(GetProp(history'[Driven], k)).is_delete
           /\ LastRecord(GetProp(history'[Driven], k)).value = getState(Driven, k)]_vars

\* the history of key k in the history object h, empty when k has none
HistOrEmpty(h, k) == IF HasProp(h, k) THEN GetProp(h, k) ELSE <<>>

\* C4: in every step and for every key of every ledger, the records the key
\* had stay where they were and as they were, and at most one record is added,
\* at the end; a putState or deleteState of the key that resolves adds exactly
\* one, of its own kind, and nothing else adds one; a key whose live value is
\* deleted keeps its history.
C4_HistoryAppendOnly ==
    [][\A s \in Stubs, k \in Keys :
        LET old == HistOrEmpty(history[s], k)
            new == HistOrEmpty(history'[s], k)
        IN /\ history'[s] # history[s] =>
                 /\ Len(new) \in {Len(old), Len(old) + 1}
                 /\ SubSeq(new, 1, Len(old)) = old
           /\ (ret' = "resolved" /\ \E v \in Values : putState(s, k, v)) =>
                 /\ Len(new) = Len(old) + 1
                 /\ ~LastRecord(new).is_delete
                 /\ LastRecord(new).value = GetProp(state'[s], k)
           /\ (ret' = "resolved" /\ deleteState(s, k)) =>
                 /\ Len(new) = Len(old) + 1
                 /\ LastRecord(new).is_delete
                 /\ ~HasProp(state'[s], k)
           /\ Len(new) # Len(old) =>
                 /\ ret' = "resolved"
                 /\ (\E v \in Values : putState(s, k, v)) \/ deleteState(s, k)]_vars

\* C4 witness: the peer's chaincode, invoked from cc1, has written and then
\* deleted a key: the key is gone from the peer's state and both records are
\* in its history, while cc1 has begun no history for it
C4_Witness ==
    /\ HasProp(history["cc2"], ka)
    /\ Len(HistoryOf("cc2", ka)) = 2
    /\ ~HistoryOf("cc2", ka)[1].is_delete
    /\ HistoryOf("cc2", ka)[2].is_delete
    /\ ~HasProp(state["cc2"], ka)
    /\ stack = <<>>

\* C5: getStateByRange(startKey, endKey) yields exactly the live keys k with
\* startKey <= k <= endKey, each once and with its current value, and every
\* live key when both bounds are the empty string.
C5_RangeIsInclusive ==
    \A startKey \in RangeKeys, endKey \in RangeKeys :
        LET items == Yields(getStateByRange(Driven, startKey, endKey))
        IN /\ {items[i] : i \in 1..Len(items)} =
                 {[key |-> k, value |-> getState(Driven, k)] :
                     k \in {x \in Keys :
                              /\ HasProp(state[Driven], x)
                              /\ \/ startKey = kempty /\ endKey = kempty
                                 \/ /\ PrecedesOrEquals(startKey, x)
                                    /\ PrecedesOrEquals(x, endKey)}}
           /\ Cardinality({items[i].key : i \in 1..Len(items)}) = Len(items)

\* C5 witness: two keys are live and the bounds of a range cut them apart
C5_Witness ==
    /\ HasProp(state[Driven], ka)
    /\ HasProp(state[Driven], kb)
    /\ Len(Yields(getStateByRange(Driven, ka, ka))) = 1
    /\ Len(Yields(getStateByRange(Driven, kab, kb))) = 1
    /\ Len(Yields(getStateByRange(Driven, kempty, kempty))) = 2
    /\ Len(Yields(getStateByRange(Driven, kb, ka))) = 0

\* C6 (as stated): getStateByRange and getPrivateDataByRange yield their keys
\* in ascending byte order whatever the order of the writes.
C6_RangeIsAscending ==
    \A startKey \in RangeKeys, endKey \in RangeKeys :
        /\ Ascending(KeysOf(Yields(getStateByRange(Driven, startKey, endKey))))
        /\ \A c \in Collections :
              Ascending(KeysOf(Yields(getPrivateDataByRange(Driven, c, startKey, endKey))))

\* C7 (as stated): after deletePrivateData(c, k) of a key that was put,
\* getPrivateData(c, k) is absent and getPrivateDataByRange(c, ...) no longer
\* returns k.
C7_PrivateDeleteRemoves ==
    [][\A c \in Collections, k \in Keys :
        (getPrivateData(Driven, c, k) # undefined /\ deletePrivateData(Driven, c, k)) =>
           /\ PrivateGet(privateCollections'[Driven], c, k) = undefined
           /\ LET items == Yields(PrivateRange(privateCollections'[Driven], c, kempty, kempty))
              IN \A i \in 1..Len(items) : items[i].key # k]_vars

\* the reads of collection c of pcs: every key, and the whole range
PrivateView(pcs, c) ==
    <<[k \in Keys |-> PrivateGet(pcs, c, k)],
      Yields(PrivateRange(pcs, c, kempty, kempty))>>

\* the reads of the main store st: every key, and the whole range
StateView(st) ==
    <<[k \in Keys |-> GetProp(st, k)], Yields(RangeScan(st, kempty, kempty))>>

\* every range over collection c returns what getPrivateData returns
RangeAgreesWithGet(s, c) ==
    \A startKey \in RangeKeys, endKey \in RangeKeys :
        LET items == Yields(getPrivateDataByRange(s, c, startKey, endKey))
        IN \A i \in 1..Len(items) :
              items[i].value = getPrivateData(s, c, items[i].key)

\* C8: a putPrivateData(c1, k, v) that resolves is read back from c1; what the
\* reads of a collection return changes only by a putPrivateData into that
\* very collection, which changes the one key it names; what the reads of the
\* main store return changes only by putState or deleteState; and a range
\* over a collection returns only what getPrivateData returns for it.
C8_PrivateIsolation ==
    /\ [](\A c \in Collections : RangeAgreesWithGet(Driven, c))
    /\ [][/\ \A c1 \in Collections, k \in Keys, v \in Values :
                (ret' = "resolved" /\ putPrivateData(Driven, c1, k, v)) =>
                   PrivateGet(privateCollections'[Driven], c1, k) = v
          /\ \A c \in Collections :
                (/\ privateCollections' # privateCollections
                 /\ PrivateView(privateCollections'[Driven], c) #
                       PrivateView(privateCollections[Driven], c)) =>
                   \E k \in Keys, v \in Values :
                       /\ putPrivateData(Driven, c, k, v)
                       /\ \A k2 \in Keys \ {k} :
                             PrivateGet(privateCollections'[Driven], c, k2) =
                                PrivateGet(privateCollections[Driven], c, k2)
          /\ (state' # state /\ StateView(state'[Driven]) # StateView(state[Driven])) =>
                \E k \in Keys : \/ \E v \in Values : putState(Driven, k, v)
                                \/ deleteState(Driven, k)]_vars

\* C8 witness: k1 is in C1 alone, C2 holds another key, the main store holds
\* k2, and each read shows only its own store
C8_Witness ==
    /\ getPrivateData(Driven, "C1", ka) = "v1"
    /\ getPrivateData(Driven, "C2", ka) = undefined
    /\ getPrivateData(Driven, "C2", kb) = "v2"
    /\ getPrivateData(Driven, "C1", kb) = undefined
    /\ getState(Driven, ka) = undefined
    /\ getState(Driven, kb) = "v1"
    /\ Len(Yields(getPrivateDataByRange(Driven, "C2", kempty, kempty))) = 1
    /\ Len(Yields(getStateByRange(Driven, kempty, kempty))) = 1

\* C10 (as stated): while an entry point begun by mockInit, mockInvoke or
\* mockInvokeWithSignedProposal with transaction id t runs, getTxID() is t.
C10_RunsInItsTransaction == stack # <<>> => getTxID(Top.stub) = Top.uuid

\* C10 (amended): mockInit, mockInvoke and mockInvokeWithSignedProposal with id
\* t call the entry point with getTxID() = t (and getSignedProposal() the
\* proposal supplied); while an entry point runs, the transaction id and the
\* signed proposal of a stub change only when a nested invocation begins or
\* ends a transaction on that same stub; the call returns the response of the
\* chaincode and leaves the stub with an empty transaction id.
C10_Lifecycle ==
    [][/\ Len(stack') = Len(stack) + 1 =>
             /\ \A t \in UUIDs, a \in ArgLists, tm \in TransientArgs :
                   (mockInit(Driven, t, a, tm) \/ mockInvoke(Driven, t, a, tm)) =>
                      /\ txID'[Driven] = t
                      /\ stack'[Len(stack')] = Frame(Driven, t)
             /\ \A t \in UUIDs, a \in ArgLists, sp \in Proposals :
                   mockInvokeWithSignedProposal(Driven, t, a, sp) =>
                      /\ txID'[Driven] = t
                      /\ signedProposal'[Driven] = sp
                      /\ stack'[Len(stack')] = Frame(Driven, t)
       /\ \A s \in Stubs :
             (/\ stack # <<>>
              /\ txID'[s] # txID[s] \/ signedProposal'[s] # signedProposal[s]) =>
                \/ Len(stack') = Len(stack) + 1 /\ stack'[Len(stack')].stub = s
                \/ Len(stack') = Len(stack) - 1 /\ Top.stub = s /\ ret' \in Responses
       /\ Len(stack') = Len(stack) - 1 =>
             \A r \in Responses :
                ChaincodeReturns(r) =>
                   /\ ret' = r
                   /\ txID'[Top.stub] = ""
                   /\ stack' = SubSeq(stack, 1, Len(stack) - 1)]_vars

\* C10 witness: one invocation has returned the chaincode's response and the
\* entry point of the next, begun with a signed proposal, is running
C10_Witness ==
    /\ Len(stack) = 1
    /\ Top = Frame(Driven, "t2")
    /\ getTxID(Driven) = "t2"
    /\ getSignedProposal(Driven) = "sp1"
    /\ ret \in Responses

\* C9: mockTransactionEnd(uuid), whatever uuid, leaves the transaction id
\* empty, the signed proposal cleared and the transient map empty, and leaves
\* state, history, private collections, events and the registry as they were.
C9_EndClearsContextOnly ==
    [][\A u \in UUIDs :
        CallMockTransactionEnd(Driven, u) =>
           /\ txID'[Driven] = ""
           /\ signedProposal'[Driven] = null
           /\ transientMap'[Driven] = EmptyMap
           /\ UNCHANGED <<state, history, privateCollections, event, invokables>>]_vars

\* C9 witness: the last transaction has been ended on a ledger that holds
\* state, history, private data, an event and a peer
C9_Witness ==
    /\ txID[Driven] = ""
    /\ signedProposal[Driven] = null
    /\ transientMap[Driven] = EmptyMap
    /\ ret = "void"
    /\ state[Driven] # NoProps
    /\ history[Driven] # NoProps
    /\ privateCollections[Driven] # NoProps
    /\ event[Driven] # NoProps
    /\ invokables[Driven] # NoProps

\* C11: when cc1 has an active transaction t and cc2 is registered as peer
\* "cc2", invokeChaincode("cc2", args, "") from cc1 begins on cc2 a transaction
\* with id t and cc2's entry point on the arguments given; while that entry
\* point runs cc2's transaction id is t and no step changes the state or the
\* history of cc1; and its return hands cc2's response back and leaves the
\* transaction of cc1 as it was.
C11_PeerRunsInCallersTransaction ==
    [][/\ (/\ Len(stack') = Len(stack) + 1
           /\ txID["cc1"] \in UUIDs
           /\ GetProp(invokables["cc1"], "cc2") = "cc2") =>
             \A a \in ArgLists :
                invokeChaincode("cc1", "cc2", a, "") =>
                   /\ stack'[Len(stack')] = Frame("cc2", txID["cc1"])
                   /\ txID'["cc2"] = txID["cc1"]
                   /\ args'["cc2"] = <<a>>
                   /\ UNCHANGED <<state, history, ret>>
                   /\ txID'["cc1"] = txID["cc1"]
       /\ Running("cc2") =>
             /\ txID["cc2"] = Top.uuid
             /\ txID["cc2"] = txID["cc1"]
             /\ state'["cc1"] = state["cc1"]
             /\ history'["cc1"] = history["cc1"]
             /\ txID'["cc1"] = txID["cc1"]
             /\ Len(stack') = Len(stack) - 1 =>
                   \A r \in Responses : ChaincodeReturns(r) => ret' = r]_vars

\* C11 witness: cc1's entry point runs in t1 and has got the response of peer
\* cc2, whose chaincode wrote a key in t1; cc1's own state holds nothing
C11_Witness ==
    /\ stack = <<Frame("cc1", "t1")>>
    /\ ret \in Responses
    /\ txID["cc1"] = "t1"
    /\ HasProp(state["cc2"], ka)
    /\ HistoryOf("cc2", ka)[1].tx_id = "t1"
    /\ state["cc1"] = NoProps
    /\ history["cc1"] = NoProps

\* C12: invokeChaincode("cc2", args, channel) goes to the peer registered
\* under "cc2" when channel is empty and under "cc2/ch" when it is "ch", and
\* begins that peer's entry point; when nothing is registered under that very
\* key it fails with the chaincode-not-found error, begins nothing, and leaves
\* the transaction context, state and history of every stub as they were.
C12_LookupByQualifiedName ==
    [][\A s \in Stubs, a \in ArgLists, ch \in Channels :
        invokeChaincode(s, "cc2", a, ch) =>
           LET name == IF ch = "" THEN "cc2" ELSE "cc2/ch"
           IN IF HasProp(invokables[s], name)
              THEN /\ Len(stack') = Len(stack) + 1
                   /\ stack'[Len(stack')].stub = GetProp(invokables[s], name)
              ELSE /\ ret' = "rejected: chaincode not found"
                   /\ UNCHANGED <<txID, txTimestamp, args, transientMap,
                                  signedProposal, state, history, stack>>]_vars

\* C12 witness: a peer is registered under "cc2" alone and a call inside a
\* transaction, which can only have named channel "ch", was rejected
C12_Witness ==
    /\ HasProp(invokables[Driven], "cc2")
    /\ ~HasProp(invokables[Driven], "cc2/ch")
    /\ ret = "rejected: chaincode not found"
    /\ txID[Driven] = "t1"

\* C13 (as stated): getFunctionAndParameters returns fcn = args[0] and params
\* = the rest, leaves the argument list getArgs / getStringArgs return as it
\* was, and so returns the same when called again.
C13_SplitIsPure ==
    [][\A s \in Stubs :
        (getFunctionAndParameters(s) /\ ret' = "returned") =>
           /\ args'[s] = getArgs(s)
           /\ FunctionAndParameters(args'[s][1]) = FunctionAndParameters(getArgs(s)[1])]_vars

\* p is a leading part of q
IsPrefix(p, q) == Len(p) <= Len(q) /\ SubSeq(q, 1, Len(p)) = p

\* C14: getStateByPartialCompositeKey(objectType, attributes) yields what
\* getStateByRange(p, p + MAX_UNICODE_RUNE_VALUE) yields for p =
\* createCompositeKey(objectType, attributes), and that is exactly the live
\* keys made from objectType and an attribute list that begins with
\* attributes, each once and with its value: no key of another object type,
\* no key whose attribute only begins with the attribute asked for, no plain key.
C14_PartialKeyScan ==
    \A in \in PartialInputs :
        LET p == createCompositeKey(in[1], in[2])
            items == Yields(getStateByPartialCompositeKey(Driven, in[1], in[2]))
            made == {c \in CompositeInputs :
                        /\ c[1] = in[1]
                        /\ IsPrefix(in[2], c[2])
                        /\ HasProp(state[Driven], createCompositeKey(c[1], c[2]))}
        IN /\ items = Yields(getStateByRange(Driven, p, p \o MAX_UNICODE_RUNE_VALUE))
           /\ {items[i] : i \in 1..Len(items)} =
                 {[key |-> createCompositeKey(c[1], c[2]),
                   value |-> getState(Driven, createCompositeKey(c[1], c[2]))] : c \in made}
           /\ Len(items) = Cardinality(made)

\* C14 witness: the keys made from ("d", ["a", "b"]) and ("d", ["ab"]) are
\* live, and the scan for ("d", ["a"]) yields the first of them alone
C14_Witness ==
    /\ HasProp(state[Driven], createCompositeKey(doc, <<ka, kb>>))
    /\ HasProp(state[Driven], createCompositeKey(doc, <<kab>>))
    /\ KeysOf(Yields(getStateByPartialCompositeKey(Driven, doc, <<ka>>))) =
          <<createCompositeKey(doc, <<ka, kb>>)>>

\* C17: the iterator getStateByRange or getStateByPartialCompositeKey hands
\* out yields the pairs that were live in the range when it was called, and a
\* later putState or deleteState changes nothing of what it yields.
C17_IteratorIsSnapshot ==
    [][/\ (iterator' # iterator /\ iterator'[1].currentLoc = 0) =>
             LET items == Yields(iterator'[1])
             IN \A i \in 1..Len(items) : items[i].value = getState(Driven, items[i].key)
       /\ (iterator # <<>> /\ state' # state) =>
             Yields(iterator'[1]) = Yields(iterator[1])]_vars

\* C17 witness: the iterator still holds a key with the value it had at the
\* call, while the store has a later value for it
C17_Witness ==
    /\ iterator # <<>>
    /\ iterator[1].currentLoc = 0
    /\ \E i \in 1..Len(iterator[1].data) :
          /\ iterator[1].data[i].value = "v1"
          /\ getState(Driven, iterator[1].data[i].key) = "v2"

\* C15 (as stated): getHistoryForKey(k) fails with the unknown-key error for
\* a key that was never written, and succeeds with the records of k in write
\* order for a key that was written, deleted since or not.
C15_HistoryOfUnknownKeyFails ==
    [][\A k \in Keys :
        CallGetHistoryForKey(Driven, k) =>
           IF HasProp(history[Driven], k)
           THEN /\ ret' = "resolved"
                /\ getHistoryForKey(Driven, k).data = HistoryOf(Driven, k)
           ELSE ret' = "rejected: unknown key"]_vars

\* C16 (as stated): every record putState appends is a non-delete record with
\* the value written and the non-empty id of the transaction active at the
\* write, the id last given to mockTransactionStart / mockInit / mockInvoke.
C16_PutRecordsCarryTransaction ==
    [][\A k \in Keys, v \in Values :
        (ret' = "resolved" /\ putState(Driven, k, v)) =>
           LET rec == LastRecord(GetProp(history'[Driven], k))
           IN /\ ~rec.is_delete
              /\ rec.value = v
              /\ rec.tx_id = getTxID(Driven)
              /\ rec.tx_id \in UUIDs]_vars

\* C18: a setEvent(n, p) that resolves is read back by getEvent(n); what
\* getEvent(n) returns changes only in a setEvent(n, p') that resolves; and
\* mockTransactionStart, mockTransactionEnd, putState and deleteState leave
\* the event map as it was.
C18_EventsOutliveTransactions ==
    [][/\ \A n \in EventNames :
             /\ \A v \in Values :
                   (ret' = "resolved" /\ setEvent(Driven, n, v)) =>
                      GetProp(event'[Driven], n) = v
             /\ GetProp(event'[Driven], n) # getEvent(Driven, n) =>
                   /\ ret' = "resolved"
                   /\ \E v \in Values : setEvent(Driven, n, v)
       /\ txID' # txID =>
             /\ \A t \in UUIDs, tm \in TransientArgs :
                   CallMockTransactionStart(Driven, t, tm) => event' = event
             /\ \A t \in UUIDs : CallMockTransactionEnd(Driven, t) => event' = event
       /\ history' # history =>
             \A k \in Keys :
                /\ \A v \in Values : putState(Driven, k, v) => event' = event
                /\ deleteState(Driven, k) => event' = event]_vars

\* C18 witness: transaction t2 has just begun, after a transaction t1 that
\* wrote a key, and the event holds the payload that overwrote its first
C18_Witness ==
    /\ getEvent(Driven, "evt") = "v2"
    /\ txID[Driven] = "t2"
    /\ ret = "void"
    /\ HasProp(history[Driven], ka)
    /\ HistoryOf(Driven, ka)[1].tx_id = "t1"

\* C19 (as stated): when the entry point begun by mockInit, mockInvoke or
\* mockInvokeWithSignedProposal fails, the call leaves the stub with an empty
\* transaction id, a cleared signed proposal and an empty transient map, as
\* it does when the entry point returns.
C19_TransactionAlwaysEnded ==
    [][(Len(stack') = Len(stack) - 1 /\ ChaincodeThrows) =>
          /\ txID'[Top.stub] = ""
          /\ signedProposal'[Top.stub] = null
          /\ transientMap'[Top.stub] = EmptyMap]_vars

\* the transaction fields of stub s are left as they were
CtxUnchanged(s) ==
    /\ txID'[s] = txID[s]
    /\ args'[s] = args[s]
    /\ signedProposal'[s] = signedProposal[s]
    /\ transientMap'[s] = transientMap[s]
    /\ txTimestamp'[s] = txTimestamp[s]

\* C20 (as stated): when a nested invocation returns to the entry point that
\* called invokeChaincode, whatever peer was registered, the calling stub
\* still has the transaction id its entry point was begun with.
C20_CallerKeepsTransaction ==
    [][(Len(stack) >= 2 /\ Len(stack') = Len(stack) - 1 /\ ret' \in Responses) =>
          txID'[stack[Len(stack) - 1].stub] = stack[Len(stack) - 1].uuid]_vars

\* C20 (amended): invokeChaincode to a peer that is another stub leaves the
\* transaction context of the calling stub as it was, and so does every step
\* while the peer's entry point runs, its return included; invokeChaincode to
\* the calling stub itself keeps the transaction id, puts the arguments of the
\* call in place of the caller's and drops its transient map, and the return
\* of that nested invocation leaves the stub with an empty transaction id.
C20_CallerContext ==
    [][/\ Len(stack') = Len(stack) + 1 =>
             \A s \in Stubs, a \in ArgLists :
                invokeChaincode(s, "cc2", a, "") =>
                   IF GetProp(invokables[s], "cc2") # s
                   THEN CtxUnchanged(s)
                   ELSE /\ txID'[s] = txID[s]
                        /\ args'[s] = <<a>>
                        /\ transientMap'[s] = undefined
       /\ \A s \in Stubs :
             (stack # <<>> /\ Top.stub # s /\ ~CtxUnchanged(s)) =>
                /\ Len(stack') = Len(stack) + 1
                /\ stack'[Len(stack')].stub = s
       /\ (/\ Len(stack) >= 2
           /\ Len(stack') = Len(stack) - 1
           /\ ret' \in Responses
           /\ stack[Len(stack) - 1].stub = Top.stub) =>
             txID'[Top.stub] = ""]_vars

\* C20 witness: cc1's entry point, begun in t1 with a signed proposal, has
\* invoked peer cc2, whose transaction has ended, and cc1 is still in t1 with
\* its arguments and its proposal and has written a key in t1
C20_Witness ==
    /\ stack = <<Frame("cc1", "t1")>>
    /\ GetProp(invokables["cc1"], "cc2") = "cc2"
    /\ txID["cc2"] = ""
    /\ txID["cc1"] = "t1"
    /\ args["cc1"] = <<<<"fn", "x">>>>
    /\ signedProposal["cc1"] = "sp1"
    /\ ret = "resolved"
    /\ HasProp(history["cc1"], ka)
    /\ HistoryOf("cc1", ka)[1].tx_id = "t1"

\* C21 (as stated): in every reachable state getTransient() of every stub is
\* a map, the empty one or one that was supplied to the begin of the current
\* transaction, never an absent value; and it is the empty map whenever no
\* transaction is active on the stub.
C21_TransientIsAlwaysAMap ==
    \A s \in Stubs :
        /\ getTransient(s) \in {EmptyMap} \cup (TransientArgs \ {undefined})
        /\ NoActiveTransaction(s) => getTransient(s) = EmptyMap

====
